---- MODULE Spec2Model ----
(***************************************************************************)
(* Live transcription session manager of the OneButton backend:            *)
(*   AudioStreamHandler      (src/src/sockets/audioStream.handler.ts)      *)
(*   TranscriptionService    (src/src/services/meeting.service.ts 310-502) *)
(*   MeetingRepository       (src/unnamed/part_008)                        *)
(*   gracefulShutdown        (src/unnamed/part_007), App.cleanup (part_005)*)
(*                                                                         *)
(* Execution model (Node.js): every handler runs to its next `await`.  An  *)
(* await of a database call (findById, saveTranscript, $disconnect) is     *)
(* resumed by a later I/O callback; an await of an already settled promise *)
(* (startLiveTranscription, sendAudio, stopLiveTranscription and           *)
(* TranscriptionService.cleanup contain no await) is resumed by a          *)
(* microtask, and the microtask queue is drained before the event loop     *)
(* delivers the next I/O callback.  Socket events of one batch are         *)
(* dispatched before the microtasks of the batch run.                      *)
(***************************************************************************)
EXTENDS Integers, Sequences, FiniteSets, Bags, TLC

\* ------------------------------------------------------------------ bounds
MaxUpstream == 2      \* upstream recognition connections ever created
MaxFragments == 2     \* transcript fragments the adapter ever emits
MaxInFlight == 2      \* socket event handlers suspended at an await
MaxTableWrites == 1   \* rows created, updated or deleted by the REST API
                      \* and the cleanup job
MaxLoad == 4          \* authenticated sockets, connections and table writes
                      \* together
MaxWork == 3          \* connections, fragments and table writes together
MaxWorkAlone == 5     \* the same while the second socket is the only client

\* ---------------------------------------------------------------- universe
Conns == {"c1", "c2"}
Users == {"u1", "u2"}
Undefined == "undefined"
NoToken == "none"
BadToken == "bad"
Tokens == {NoToken, BadToken, "tok_u1", "tok_u2"}
\* c1 is a client of the owner u1; c2 is any client
TokensOf(c) == IF c = "c1" THEN {"tok_u1"} ELSE Tokens
\* The k-th fragment the adapter emits carries the k-th text, so that order,
\* loss and duplication are visible; the provider may also send an empty
\* transcript at any time.
Texts == <<"a", "b", "c", "d">>
\* a transcript written through the REST API
ApiText == "x"

\* The meetings table read by MeetingRepository.findById: id -> owner.
\* "m1" is owned by u1, "mx" has no row at first; u2 owns no meeting at first.
MeetingTable == [m \in {"m1"} |-> "u1"]
MeetingIds == {"m1", "mx"}
Null == "null"

VARIABLES
    connected,          \* socket state: "none" | "connected" | "closed"
    userId,             \* (socket as any).userId
    inflight,           \* handlers suspended at an await (a bag: two events
                        \* of one socket may wait at the same place)
    transcriptBuffers,  \* AudioStreamHandler.transcriptBuffers (Map)
    activeConnections,  \* TranscriptionService.activeConnections (Map)
    upstream,           \* every connection deepgram.listen.live returned
    rooms,              \* socket.io rooms meeting:<id>
    persisted,          \* meetings.transcript column
    sent,               \* what the last step emitted / called
    nEmitted,           \* history: number of transcription:data emitted
    phase,              \* history: "idle", "live" (a start was accepted and no
                        \*          stop has completed since), "stopped"
    finals,             \* history: final fragments emitted since the session
                        \*          went live
    restarted,          \* history: the start that made the session live was
                        \*          accepted after a completed stop
    meetings,           \* the meetings table of the database: id -> owner
    running,            \* the process has not exited
    shutdownStage,      \* position of gracefulShutdown: "serving", "buffers",
                        \* "io", "db" (its next microtask), "draining"
                        \* (waiting for $disconnect), "exited"
    tableWrites,        \* rows written so far by the API and the cleanup job
    issuedIds           \* ids the database has given to a row so far

vars == <<connected, userId, inflight, transcriptBuffers,
          activeConnections, upstream, rooms, persisted, sent,
          nEmitted, phase, finals, restarted, meetings, running,
          shutdownStage, tableWrites, issuedIds>>

hist == <<nEmitted, phase, finals, restarted>>

\* what no socket event, handler continuation or upstream event changes
env == <<meetings, running, shutdownStage, tableWrites, issuedIds>>

\* ------------------------------------------------------------- Map helpers
MapSet(f, k, v) == [x \in (DOMAIN f) \cup {k} |-> IF x = k THEN v ELSE f[x]]
\* mutant: Map.clear() in place of Map.delete(key)
MapDelete_Clear(f, k) == [x \in {} |-> f[x]]
MapDelete(f, k) == [x \in (DOMAIN f) \ {k} |-> f[x]]
MapHas(f, k) == k \in DOMAIN f
EmptyMap == [x \in {} |-> 0]

\* Array.prototype.join(' ')
RECURSIVE JoinSp(_)
JoinSp(s) ==
    IF Len(s) = 0 THEN ""
    ELSE IF Len(s) = 1 THEN s[1]
    ELSE s[1] \o " " \o JoinSp(Tail(s))

\* this.transcriptBuffers.get(meetingId) || []
BufferOrEmpty(m) ==
    IF MapHas(transcriptBuffers, m) THEN transcriptBuffers[m] ELSE <<>>

\* ------------------------------------------------------------- collaborators
\* jwt.verify: throws unless the token is signed for a user
TokenValid(t) == t \in {"tok_u1", "tok_u2"}
TokenUser(t) == IF t = "tok_u1" THEN "u1" ELSE IF t = "tok_u2" THEN "u2" ELSE Undefined

\* db.meeting.findUnique
findById(m) == IF m \in DOMAIN meetings THEN meetings[m] ELSE Null

\* ------------------------------------------------------------- messages
\* one emit / call of a step: who caused it, whom it goes to, the event, the
\* meeting id and the text it carries (isFinal for transcription:update)
Msg(by, to, ev, m, body) ==
    [by |-> by, to |-> to, ev |-> ev, m |-> m, body |-> body, isFinal |-> FALSE]
Update(by, to, m, text, isFinal) ==
    [by |-> by, to |-> to, ev |-> "transcription:update", m |-> m,
     body |-> text, isFinal |-> isFinal]
\* the name of the i-th upstream connection as an endpoint of a message
Up(i) == "up" \o ToString(i)
NoMeeting == "-"

\* ------------------------------------------------------ suspended handlers
\* a handler of socket c for meeting m, suspended at the await named by op;
\* full is the value the await is about: the transcript the stop read
\* (stop_save, stop_saved) or the userId of the row the database read for
\* findById, Null for no row (start_row)
Handler(c, op, m, full) == [c |-> c, op |-> op, m |-> m, full |-> full]

Suspended == BagToSet(inflight)
Suspend(h) == inflight (+) SetToBag({h})
Resume(h) == inflight (-) SetToBag({h})
\* h was suspended and h2 is suspended in its place
Continue(h, h2) == (inflight (-) SetToBag({h})) (+) SetToBag({h2})

\* gracefulShutdown is between two awaits of settled promises
ShutdownTick == shutdownStage \in {"buffers", "io", "db"}

\* a continuation queued as a microtask is pending
MicrotaskPending ==
    \/ \E h \in Suspended :
          h.op \in {"start_join", "start_catch", "audio_done", "audio_catch",
                    "stop_await", "stop_catch"}
    \/ ShutdownTick

\* ---------------------------------------------------------------- Init
NoSession ==
    /\ userId = [c \in Conns |-> Undefined]
    /\ inflight = EmptyBag
    /\ transcriptBuffers = EmptyMap
    /\ activeConnections = EmptyMap
    /\ upstream = <<>>
    /\ rooms = [m \in MeetingIds |-> {}]
    /\ persisted = EmptyMap
    /\ sent = {}
    /\ nEmitted = 0
    /\ phase = [m \in MeetingIds |-> "idle"]
    /\ restarted = [m \in MeetingIds |-> FALSE]
    /\ finals = [m \in MeetingIds |-> <<>>]
    /\ meetings = MeetingTable
    /\ running = TRUE
    /\ shutdownStage = "serving"
    /\ tableWrites = 0
    /\ issuedIds = DOMAIN MeetingTable

Init ==
    /\ NoSession
    /\ connected = [c \in Conns |-> "none"]

\* ----------------------------------------------------- what the bounds count
\* the suspended handlers waiting at the await named by one of ops
Waiting(ops) == {h \in Suspended : h.op \in ops}

RECURSIVE CopiesOf(_)
CopiesOf(S) ==
    IF S = {} THEN 0
    ELSE LET h == CHOOSE x \in S : TRUE
         IN CopiesIn(h, inflight) + CopiesOf(S \ {h})

\* the connections the suspended stream:start handlers may still create
StartsPending == CopiesOf(Waiting({"start_lookup", "start_row"}))

\* the sockets a token was accepted for
Authenticated == {c \in Conns : userId[c] # Undefined}

\* what MaxLoad counts
Load == Cardinality(Authenticated) + Len(upstream) + StartsPending + tableWrites

\* what MaxWork counts
Work == Len(upstream) + StartsPending + nEmitted + tableWrites

\* authenticateSocket refused the first socket: the second is the only client
Alone == connected["c1"] = "closed" /\ userId["c1"] = Undefined

\* the bound on Work: a single client is given room for two sessions with
\* two fragments
WorkBound == IF Alone THEN MaxWorkAlone ELSE MaxWork

\* ------------------------------------------------- connection / authentication
\* mutant: the token is only required to be present, never verified
AuthenticateOk_PresentOnly(t) == t # NoToken

\* authenticateSocket: the token is present and jwt.verify accepts it
AuthenticateOk(t) == t # NoToken /\ TokenValid(t)

\* io.on('connection'): authenticateSocket, then the listeners are registered;
\* server.close() of gracefulShutdown ends the accepting of connections
Connect(c, t) ==
    /\ running
    /\ shutdownStage = "serving"
    /\ connected[c] = "none"
    /\ ~MicrotaskPending
    /\ IF AuthenticateOk(t)
       THEN /\ Load < MaxLoad
            /\ userId' = [userId EXCEPT ![c] = TokenUser(t)]
            /\ connected' = [connected EXCEPT ![c] = "connected"]
            /\ sent' = {}
       ELSE /\ userId' = userId
            /\ connected' = [connected EXCEPT ![c] = "closed"]
            /\ sent' = {Msg(c, c, "error", NoMeeting,
                            IF t = NoToken THEN "Authentication required"
                            ELSE "Invalid token")}
    /\ UNCHANGED <<inflight, transcriptBuffers, activeConnections, upstream,
                   rooms, persisted, hist>>
    /\ UNCHANGED env

\* the rooms meeting:<id> a socket is in
RoomsOf(c) == {m \in MeetingIds : c \in rooms[m]}

\* mutant: the rooms the socket was in are emptied
Disconnect_EmptiesRooms(c) ==
    /\ running
    /\ connected[c] = "connected"
    /\ ~MicrotaskPending
    /\ connected' = [connected EXCEPT ![c] = "closed"]
    /\ rooms' = [m \in MeetingIds |-> IF c \in rooms[m] THEN {} ELSE rooms[m]]
    /\ sent' = {Msg(c, "adapter", "leave-room", m, "") : m \in RoomsOf(c)}
    /\ UNCHANGED <<userId, inflight, transcriptBuffers, activeConnections,
                   upstream, persisted, hist>>
    /\ UNCHANGED env

\* transport disconnect: socket.io removes the socket from its rooms, then
\* handleDisconnect only logs
Disconnect(c) ==
    /\ running
    /\ connected[c] = "connected"
    /\ ~MicrotaskPending
    /\ connected' = [connected EXCEPT ![c] = "closed"]
    /\ rooms' = [m \in MeetingIds |-> rooms[m] \ {c}]
    /\ sent' = {Msg(c, "adapter", "leave-room", m, "") : m \in RoomsOf(c)}
    /\ UNCHANGED <<userId, inflight, transcriptBuffers, activeConnections,
                   upstream, persisted, hist>>
    /\ UNCHANGED env

\* ------------------------------------------------------------ stream:start
\* mutant: the meeting is only required to exist
OwnershipOk_ExistsOnly(meeting, uid) == meeting # Null

\* line 110: the meeting exists and belongs to the socket's user
OwnershipOk(meeting, uid) == meeting # Null /\ meeting = uid

\* socket.on('stream:start'): handleStreamStart runs to `await findById`
StreamStart(c, m) ==
    /\ running
    /\ ~ShutdownTick
    /\ connected[c] = "connected"
    /\ BagCardinality(inflight) < MaxInFlight
    /\ Len(upstream) + StartsPending < MaxUpstream
    /\ Load < MaxLoad
    /\ Work < WorkBound
    /\ inflight' = Suspend(Handler(c, "start_lookup", m, ""))
    /\ sent' = {}
    /\ UNCHANGED <<connected, userId, transcriptBuffers, activeConnections,
                   upstream, rooms, persisted, hist>>
    /\ UNCHANGED env

\* TranscriptionService.startLiveTranscription: a new connection is created
\* and stored under the meeting id, replacing whatever was stored
startLiveTranscription(m) ==
    /\ upstream' = Append(upstream, [meetingId |-> m, state |-> "connecting"])
    /\ activeConnections' = MapSet(activeConnections, m, Len(upstream) + 1)

\* the database runs the findUnique of findById: the row it reads then is
\* what the handler will be answered with
StartLookupRun(h) ==
    /\ running
    /\ h \in Suspended /\ h.op = "start_lookup"
    /\ ~MicrotaskPending
    /\ inflight' = Continue(h, Handler(h.c, "start_row", h.m, findById(h.m)))
    /\ sent' = {}
    /\ UNCHANGED <<connected, userId, transcriptBuffers, activeConnections,
                   upstream, rooms, persisted, hist>>
    /\ UNCHANGED env

\* findById resolved with the row that was read: lines 110-119, up to
\* `await startLiveTranscription`
StartLookupDone(h) ==
    /\ running
    /\ h \in Suspended /\ h.op = "start_row"
    /\ ~MicrotaskPending
    /\ IF ~OwnershipOk(h.full, userId[h.c])
       THEN /\ sent' = {Msg(h.c, h.c, "stream:error", h.m,
                            "Meeting not found or unauthorized")}
            /\ inflight' = Resume(h)
            /\ UNCHANGED <<transcriptBuffers, activeConnections, upstream,
                           phase, finals, restarted>>
       ELSE /\ transcriptBuffers' = MapSet(transcriptBuffers, h.m, <<>>)
            /\ startLiveTranscription(h.m)
            /\ inflight' = Continue(h, Handler(h.c, "start_join", h.m, ""))
            /\ sent' = {}
            /\ phase' = [phase EXCEPT ![h.m] = "live"]
            /\ restarted' = [restarted EXCEPT ![h.m] = (phase[h.m] = "stopped")]
            /\ finals' = [finals EXCEPT ![h.m] = IF phase[h.m] = "live" THEN @ ELSE <<>>]
    /\ UNCHANGED <<connected, userId, rooms, persisted, nEmitted>>
    /\ UNCHANGED env

\* findById resolved for the owner and deepgram.listen.live throws: the
\* buffer entry of line 116 is already written, startLiveTranscription
\* rethrows and the await of line 119 rejects
StartOpenThrows(h) ==
    /\ running
    /\ h \in Suspended /\ h.op = "start_row"
    /\ ~MicrotaskPending
    /\ OwnershipOk(h.full, userId[h.c])
    /\ transcriptBuffers' = MapSet(transcriptBuffers, h.m, <<>>)
    /\ inflight' = Continue(h, Handler(h.c, "start_catch", h.m, ""))
    /\ sent' = {}
    /\ UNCHANGED <<connected, userId, activeConnections, upstream, rooms,
                   persisted, hist>>
    /\ UNCHANGED env

\* the catch block of handleStreamStart after the rejected await, line 128
StartCatch(h) ==
    /\ running
    /\ h \in Suspended /\ h.op = "start_catch"
    /\ inflight' = Resume(h)
    /\ sent' = {Msg(h.c, h.c, "stream:error", h.m, "Failed to start stream")}
    /\ UNCHANGED <<connected, userId, transcriptBuffers, activeConnections,
                   upstream, rooms, persisted, hist>>
    /\ UNCHANGED env

\* findById rejected (database error): the catch block, line 128
StartLookupFail(h) ==
    /\ running
    /\ h \in Suspended /\ h.op = "start_lookup"
    /\ ~MicrotaskPending
    /\ inflight' = Resume(h)
    /\ sent' = {Msg(h.c, h.c, "stream:error", h.m, "Failed to start stream")}
    /\ UNCHANGED <<connected, userId, transcriptBuffers, activeConnections,
                   upstream, rooms, persisted, hist>>
    /\ UNCHANGED env

\* mutant: every connected socket of the requester's user joins the room
JoinRoom_UserSockets(c, m) ==
    IF connected[c] = "connected"
    THEN [rooms EXCEPT ![m] = @ \cup {d \in Conns : /\ connected[d] = "connected"
                                                   /\ userId[d] = userId[c]}]
    ELSE rooms

\* socket.join: a socket that is no longer connected receives nothing
JoinRoom(c, m) ==
    IF connected[c] = "connected"
    THEN [rooms EXCEPT ![m] = @ \cup {c}]
    ELSE rooms

\* lines 122-125, after `await startLiveTranscription`
StartJoin(h) ==
    /\ running
    /\ h \in Suspended /\ h.op = "start_join"
    /\ rooms' = JoinRoom(h.c, h.m)
    /\ sent' = {Msg(h.c, h.c, "stream:started", h.m, "")}
    /\ inflight' = Resume(h)
    /\ UNCHANGED <<connected, userId, transcriptBuffers, activeConnections,
                   upstream, persisted, hist>>
    /\ UNCHANGED env

\* ------------------------------------------------------------ stream:audio
\* socket.on('stream:audio'): handleAudioData runs to `await sendAudio`.
\* sendAudio throws when no connection is stored for the meeting and when
\* connection.send() throws (throws = TRUE); the handler is suspended at the
\* await in either case and resumes in a microtask
StreamAudio(c, m, throws) ==
    /\ running
    /\ ~ShutdownTick
    /\ connected[c] = "connected"
    /\ BagCardinality(inflight) < MaxInFlight
    /\ throws => MapHas(activeConnections, m)
    /\ IF MapHas(activeConnections, m) /\ ~throws
       THEN /\ sent' = {Msg(c, Up(activeConnections[m]), "audio", m, "")}
            /\ inflight' = Suspend(Handler(c, "audio_done", m, ""))
       ELSE /\ sent' = {}
            /\ inflight' = Suspend(Handler(c, "audio_catch", m, ""))
    /\ UNCHANGED <<connected, userId, transcriptBuffers,
                   activeConnections, upstream, rooms, persisted, hist>>
    /\ UNCHANGED env

\* the await of sendAudio resolved: nothing follows it in handleAudioData
AudioDone(h) ==
    /\ running
    /\ h \in Suspended /\ h.op = "audio_done"
    /\ inflight' = Resume(h)
    /\ sent' = {}
    /\ UNCHANGED <<connected, userId, transcriptBuffers, activeConnections,
                   upstream, rooms, persisted, hist>>
    /\ UNCHANGED env

\* the await of sendAudio rejected: the catch block of handleAudioData
AudioCatch(h) ==
    /\ running
    /\ h \in Suspended /\ h.op = "audio_catch"
    /\ inflight' = Resume(h)
    /\ sent' = {Msg(h.c, h.c, "stream:error", h.m, "Failed to process audio")}
    /\ UNCHANGED <<connected, userId, transcriptBuffers, activeConnections,
                   upstream, rooms, persisted, hist>>
    /\ UNCHANGED env

\* ------------------------------------------------------------- stream:stop
\* connection.finish(): an open connection flushes its pending results and
\* then closes; one that never opened only closes
FinishedState(st) == IF st = "open" THEN "finishing" ELSE "closing"

\* mutant: the connection is finished but its entry stays in the map
stopLiveTranscription_KeepsEntry(m, throws) ==
    IF MapHas(activeConnections, m) /\ ~throws
    THEN /\ upstream' = [upstream EXCEPT ![activeConnections[m]].state = FinishedState(@)]
         /\ activeConnections' = activeConnections
    ELSE UNCHANGED <<upstream, activeConnections>>

\* TranscriptionService.stopLiveTranscription: the stored connection is
\* finished and its entry deleted; when connection.finish() throws
\* (throws = TRUE) the entry is not deleted and the error is rethrown
stopLiveTranscription(m, throws) ==
    IF MapHas(activeConnections, m) /\ ~throws
    THEN /\ upstream' = [upstream EXCEPT ![activeConnections[m]].state = FinishedState(@)]
         /\ activeConnections' = MapDelete(activeConnections, m)
    ELSE UNCHANGED <<upstream, activeConnections>>

\* socket.on('stream:stop'): handleStreamStop runs to
\* `await stopLiveTranscription`, which resolves or (throws = TRUE) rejects
StreamStop(c, m, throws) ==
    /\ running
    /\ ~ShutdownTick
    /\ connected[c] = "connected"
    /\ BagCardinality(inflight) < MaxInFlight
    /\ throws => MapHas(activeConnections, m)
    /\ stopLiveTranscription(m, throws)
    /\ inflight' = Suspend(Handler(c, IF throws THEN "stop_catch" ELSE "stop_await",
                                   m, ""))
    /\ sent' = {}
    /\ UNCHANGED <<connected, userId, transcriptBuffers, rooms, persisted, hist>>
    /\ UNCHANGED env

\* the await of stopLiveTranscription rejected: the catch block, line 208;
\* the buffer, the room and the stored connection stay as they are
StopCatch(h) ==
    /\ running
    /\ h \in Suspended /\ h.op = "stop_catch"
    /\ inflight' = Resume(h)
    /\ sent' = {Msg(h.c, h.c, "stream:error", h.m, "Failed to stop stream")}
    /\ UNCHANGED <<connected, userId, transcriptBuffers, activeConnections,
                   upstream, rooms, persisted, hist>>
    /\ UNCHANGED env

\* lines 199-204: buffer deleted, room left, stream:stopped to the requester
StopFinish(h, full) ==
    /\ transcriptBuffers' = MapDelete(transcriptBuffers, h.m)
    /\ rooms' = [rooms EXCEPT ![h.m] = @ \ {h.c}]
    /\ sent' = {Msg(h.c, h.c, "stream:stopped", h.m, full)}
    /\ inflight' = Resume(h)
    /\ phase' = [phase EXCEPT ![h.m] = IF @ = "idle" THEN @ ELSE "stopped"]
    /\ restarted' = [restarted EXCEPT ![h.m] = FALSE]
    /\ finals' = [finals EXCEPT ![h.m] = <<>>]

\* lines 191-196: the buffer is read and joined; a non-empty transcript is
\* handed to saveTranscript, an empty one is not saved
StopRead(h) ==
    /\ running
    /\ h \in Suspended /\ h.op = "stop_await"
    /\ LET full == JoinSp(BufferOrEmpty(h.m))
       IN IF full # ""
          THEN /\ inflight' = Continue(h, Handler(h.c, "stop_save", h.m, full))
               /\ sent' = {Msg(h.c, "db", "setTranscript", h.m, full)}
               /\ UNCHANGED <<transcriptBuffers, rooms, persisted, phase, finals,
                               restarted>>
          ELSE /\ StopFinish(h, full)
               /\ UNCHANGED persisted
    /\ UNCHANGED <<connected, userId, activeConnections, upstream, nEmitted>>
    /\ UNCHANGED env

\* the database runs the update of setTranscript: it finds the row and
\* writes the transcript column
StopSaveRun(h) ==
    /\ running
    /\ h \in Suspended /\ h.op = "stop_save"
    /\ ~MicrotaskPending
    /\ h.m \in DOMAIN meetings
    /\ persisted' = MapSet(persisted, h.m, h.full)
    /\ inflight' = Continue(h, Handler(h.c, "stop_saved", h.m, h.full))
    /\ sent' = {}
    /\ UNCHANGED <<connected, userId, transcriptBuffers, activeConnections,
                   upstream, rooms, hist>>
    /\ UNCHANGED env

\* saveTranscript resolved: lines 199-204 with the transcript that was read
StopSaveOk(h) ==
    /\ running
    /\ h \in Suspended /\ h.op = "stop_saved"
    /\ ~MicrotaskPending
    /\ StopFinish(h, h.full)
    /\ UNCHANGED <<connected, userId, activeConnections, upstream, nEmitted,
                   persisted>>
    /\ UNCHANGED env

\* saveTranscript rejected (the update found no row, database error): the
\* catch block, line 208
StopSaveFail(h) ==
    /\ running
    /\ h \in Suspended /\ h.op = "stop_save"
    /\ ~MicrotaskPending
    /\ inflight' = Resume(h)
    /\ sent' = {Msg(h.c, h.c, "stream:error", h.m, "Failed to stop stream")}
    /\ UNCHANGED <<connected, userId, transcriptBuffers, activeConnections,
                   upstream, rooms, persisted, hist>>
    /\ UNCHANGED env

\* ------------------------------------------------------- upstream events
\* LiveTranscriptionEvents.Open: transcription:started has no listener
UpstreamOpen(i) ==
    /\ running
    /\ i \in DOMAIN upstream /\ upstream[i].state = "connecting"
    /\ ~MicrotaskPending
    /\ upstream' = [upstream EXCEPT ![i].state = "open"]
    /\ sent' = {}
    /\ UNCHANGED <<connected, userId, inflight, transcriptBuffers,
                   activeConnections, rooms, persisted, hist>>
    /\ UNCHANGED env

\* mutant: the isFinal test is dropped, every fragment is buffered
BufferAfter_EveryFragment(m, text, isFinal) ==
    MapSet(transcriptBuffers, m, Append(BufferOrEmpty(m), text))

\* handleTranscriptionData lines 160-164
BufferAfter(m, text, isFinal) ==
    IF isFinal
    THEN MapSet(transcriptBuffers, m, Append(BufferOrEmpty(m), text))
    ELSE transcriptBuffers

\* mutant: io.emit, the broadcast reaches every connected socket
BroadcastTargets_AllSockets(m) == {c \in Conns : connected[c] = "connected"}

\* io.to(`meeting:${meetingId}`): the sockets the broadcast reaches
BroadcastTargets(m) == rooms[m]

\* LiveTranscriptionEvents.Transcript -> transcription:data ->
\* handleTranscriptionData; an empty transcript is not emitted (line 355)
UpstreamTranscript(i, empty, isFinal) ==
    /\ running
    /\ i \in DOMAIN upstream /\ upstream[i].state \in {"open", "finishing"}
    /\ ~MicrotaskPending
    /\ nEmitted < MaxFragments
    /\ Work < WorkBound
    /\ LET m == upstream[i].meetingId
           text == IF empty THEN "" ELSE Texts[nEmitted + 1]
       IN IF text = ""
          THEN /\ sent' = {}
               /\ UNCHANGED <<transcriptBuffers, hist>>
          ELSE /\ transcriptBuffers' = BufferAfter(m, text, isFinal)
               /\ sent' = {Update(Up(i), c, m, text, isFinal) : c \in BroadcastTargets(m)}
               /\ nEmitted' = nEmitted + 1
               /\ finals' = [finals EXCEPT ![m] =
                                 IF isFinal /\ phase[m] = "live" THEN Append(@, text) ELSE @]
               /\ UNCHANGED <<phase, restarted>>
    /\ UNCHANGED <<connected, userId, inflight, activeConnections,
                   upstream, rooms, persisted>>
    /\ UNCHANGED env

\* LiveTranscriptionEvents.Error: logged by both listeners, nothing else
UpstreamError(i) ==
    /\ running
    /\ i \in DOMAIN upstream /\ upstream[i].state \in {"connecting", "open", "finishing", "closing"}
    /\ ~MicrotaskPending
    /\ sent' = {Msg(Up(i), "log", "Transcription error", upstream[i].meetingId, "")}
    /\ UNCHANGED <<connected, userId, inflight, transcriptBuffers,
                   activeConnections, upstream, rooms, persisted, hist>>
    /\ UNCHANGED env

\* how a connection ends: "closed" after finish() was called on it, "dropped"
\* when the provider or the network ended it
ClosedState(st) == IF st \in {"finishing", "closing"} THEN "closed" ELSE "dropped"

\* LiveTranscriptionEvents.Close: the entry stored under the meeting id is
\* deleted; transcription:ended has no listener
UpstreamClose(i) ==
    /\ running
    /\ i \in DOMAIN upstream /\ upstream[i].state \in {"connecting", "open", "finishing", "closing"}
    /\ ~MicrotaskPending
    /\ upstream' = [upstream EXCEPT ![i].state = ClosedState(@)]
    /\ activeConnections' = MapDelete(activeConnections, upstream[i].meetingId)
    /\ sent' = {}
    /\ UNCHANGED <<connected, userId, inflight, transcriptBuffers,
                   rooms, persisted, hist>>
    /\ UNCHANGED env

\* ------------------------------------------------------ the meetings table
\* MeetingService.createMeeting -> MeetingRepository.create: a row with an
\* id the database generates (never one a row had before), owned by the
\* caller, without a transcript
MeetingCreate(m, u) ==
    /\ running
    /\ ~MicrotaskPending
    /\ tableWrites < MaxTableWrites
    /\ Load < MaxLoad
    /\ Work < WorkBound
    /\ m \notin issuedIds
    /\ meetings' = MapSet(meetings, m, u)
    /\ issuedIds' = issuedIds \cup {m}
    /\ tableWrites' = tableWrites + 1
    /\ sent' = {}
    /\ UNCHANGED <<connected, userId, inflight, transcriptBuffers,
                   activeConnections, upstream, rooms, persisted, hist,
                   running, shutdownStage>>

\* MeetingService.updateMeeting -> MeetingRepository.update: the owner writes
\* the transcript column of the row through the REST API
MeetingUpdate(m) ==
    /\ running
    /\ ~MicrotaskPending
    /\ tableWrites < MaxTableWrites
    /\ Load < MaxLoad
    /\ Work < WorkBound
    /\ m \in DOMAIN meetings
    /\ persisted' = MapSet(persisted, m, ApiText)
    /\ tableWrites' = tableWrites + 1
    /\ sent' = {}
    /\ UNCHANGED <<connected, userId, inflight, transcriptBuffers,
                   activeConnections, upstream, rooms, hist,
                   meetings, running, shutdownStage, issuedIds>>

\* CleanupMeetingsJob.execute -> MeetingRepository.delete: the row is removed,
\* its transcript with it
MeetingDelete(m) ==
    /\ running
    /\ ~MicrotaskPending
    /\ tableWrites < MaxTableWrites
    /\ Load < MaxLoad
    /\ Work < WorkBound
    /\ m \in DOMAIN meetings
    /\ meetings' = MapDelete(meetings, m)
    /\ persisted' = MapDelete(persisted, m)
    /\ tableWrites' = tableWrites + 1
    /\ sent' = {}
    /\ UNCHANGED <<connected, userId, inflight, transcriptBuffers,
                   activeConnections, upstream, rooms, hist,
                   running, shutdownStage, issuedIds>>

\* ---------------------------------------------------------------- shutdown
\* the connections stored in activeConnections
StoredConnections == {activeConnections[m] : m \in DOMAIN activeConnections}

\* TranscriptionService.cleanup: finish() on every stored connection; a
\* finish() that throws (the connections in failed) is logged and skipped
cleanupConnections(failed) ==
    [i \in DOMAIN upstream |->
        IF i \in StoredConnections \ failed
        THEN [upstream[i] EXCEPT !.state = FinishedState(@)]
        ELSE upstream[i]]

\* SIGTERM / SIGINT: gracefulShutdown runs server.close(), App.cleanup,
\* AudioStreamHandler.cleanup and TranscriptionService.cleanup (the stored
\* connections finished, activeConnections cleared) up to the first await.
\* Nothing keeps a second signal from starting it again while an earlier
\* run waits for $disconnect
ShutdownSignal(failed) ==
    /\ running
    /\ shutdownStage \in {"serving", "draining"}
    /\ ~MicrotaskPending
    /\ failed \subseteq StoredConnections
    /\ upstream' = cleanupConnections(failed)
    /\ activeConnections' = EmptyMap
    /\ sent' = {}
    /\ shutdownStage' = "buffers"
    /\ UNCHANGED <<connected, userId, inflight, transcriptBuffers, rooms,
                   persisted, hist, meetings, running, tableWrites, issuedIds>>

\* AudioStreamHandler.cleanup after its await: transcriptBuffers.clear()
ShutdownBuffers ==
    /\ running
    /\ shutdownStage = "buffers"
    /\ transcriptBuffers' = EmptyMap
    /\ sent' = {}
    /\ shutdownStage' = "io"
    /\ UNCHANGED <<connected, userId, inflight, activeConnections, upstream,
                   rooms, persisted, hist, meetings, running, tableWrites, issuedIds>>

\* App.cleanup after its await: jobManager.stopAll(), io.close() disconnects
\* every socket
ShutdownIo ==
    /\ running
    /\ shutdownStage = "io"
    /\ connected' = [c \in Conns |-> IF connected[c] = "connected" THEN "closed"
                                     ELSE connected[c]]
    /\ rooms' = [m \in MeetingIds |-> {}]
    /\ sent' = UNION {{Msg(c, "adapter", "leave-room", m, "") : m \in RoomsOf(c)} :
                          c \in Conns}
    /\ shutdownStage' = "db"
    /\ UNCHANGED <<userId, inflight, transcriptBuffers, activeConnections,
                   upstream, persisted, hist, meetings, running, tableWrites, issuedIds>>

\* gracefulShutdown after `await app.cleanup()`: disconnectDatabase calls
\* prisma.$disconnect() and waits for it
ShutdownDb ==
    /\ running
    /\ shutdownStage = "db"
    /\ sent' = {Msg("process", "db", "$disconnect", NoMeeting, "")}
    /\ shutdownStage' = "draining"
    /\ UNCHANGED <<connected, userId, inflight, transcriptBuffers,
                   activeConnections, upstream, rooms, persisted, hist,
                   meetings, running, tableWrites, issuedIds>>

\* process.exit: the process ends, the suspended handlers and both maps
\* with it
ProcessExit ==
    /\ running' = FALSE
    /\ shutdownStage' = "exited"
    /\ inflight' = EmptyBag
    /\ transcriptBuffers' = EmptyMap
    /\ activeConnections' = EmptyMap
    /\ sent' = {}
    /\ UNCHANGED <<connected, userId, upstream, rooms, persisted, hist,
                   meetings, tableWrites, issuedIds>>

\* prisma.$connect() of getPrismaClient rejects, or an unhandled rejection or
\* uncaught exception reaches the handlers of the process: process.exit(1)
\* while the server is serving, without any step of gracefulShutdown
Crash ==
    /\ running
    /\ shutdownStage = "serving"
    /\ ~MicrotaskPending
    /\ ProcessExit

\* $disconnect resolved: process.exit(0)
Exit ==
    /\ running
    /\ shutdownStage = "draining"
    /\ ~MicrotaskPending
    /\ ProcessExit

Next ==
    \/ \E c \in Conns : \E t \in TokensOf(c) : Connect(c, t)
    \/ \E c \in Conns : Disconnect(c)
    \/ \E c \in Conns, m \in MeetingIds : StreamStart(c, m)
    \/ \E h \in Suspended : StartLookupRun(h)
    \/ \E h \in Suspended : StartLookupDone(h)
    \/ \E h \in Suspended : StartLookupFail(h)
    \/ \E h \in Suspended : StartOpenThrows(h)
    \/ \E h \in Suspended : StartCatch(h)
    \/ \E h \in Suspended : StartJoin(h)
    \/ \E c \in Conns, m \in MeetingIds, throws \in BOOLEAN : StreamAudio(c, m, throws)
    \/ \E h \in Suspended : AudioDone(h)
    \/ \E h \in Suspended : AudioCatch(h)
    \/ \E c \in Conns, m \in MeetingIds, throws \in BOOLEAN : StreamStop(c, m, throws)
    \/ \E h \in Suspended : StopCatch(h)
    \/ \E h \in Suspended : StopRead(h)
    \/ \E h \in Suspended : StopSaveRun(h)
    \/ \E h \in Suspended : StopSaveOk(h)
    \/ \E h \in Suspended : StopSaveFail(h)
    \/ \E i \in DOMAIN upstream : UpstreamOpen(i)
    \/ \E i \in DOMAIN upstream, empty \in BOOLEAN, isFinal \in BOOLEAN :
          UpstreamTranscript(i, empty, isFinal)
    \/ \E i \in DOMAIN upstream : UpstreamError(i)
    \/ \E i \in DOMAIN upstream : UpstreamClose(i)
    \/ \E m \in MeetingIds, u \in Users : MeetingCreate(m, u)
    \/ \E m \in MeetingIds : MeetingUpdate(m)
    \/ \E m \in MeetingIds : MeetingDelete(m)
    \/ \E failed \in SUBSET (DOMAIN upstream) : ShutdownSignal(failed)
    \/ ShutdownBuffers
    \/ ShutdownIo
    \/ ShutdownDb
    \/ Exit
    \/ Crash

Spec == Init /\ [][Next]_vars

\* The same program with one client: the first socket was refused at
\* connection time (the token it held had expired).
InitTwo ==
    /\ NoSession
    /\ connected = [c \in Conns |-> IF c = "c1" THEN "closed" ELSE "none"]

SpecTwo == InitTwo /\ [][Next]_vars

\* ---------------------------------------------------------------- helpers
Registered(m) == MapHas(activeConnections, m)
OpenUpstreams(m) ==
    {i \in DOMAIN upstream : upstream[i].meetingId = m /\ upstream[i].state = "open"}
IsOwner(c, m) == m \in DOMAIN meetings /\ meetings[m] = userId[c]
\* the meeting has a row and it belongs to another user
NonOwner(c, m) == m \in DOMAIN meetings /\ meetings[m] # userId[c]
\* the step ended the suspended handler h or moved it to its next await
Resumed(h) == CopiesIn(h, inflight') < CopiesIn(h, inflight)
Updates(S) == {x \in S : x.ev = "transcription:update"}
ErrorsTo(S, c) == {x \in S : x.ev = "stream:error" /\ x.to = c}

\* ------------------------------------------------------------------ claims

\* C1: in every reachable state each session id has at most one upstream
\* recognition connection that is open and neither finished nor closed.
C1_AtMostOneOpenUpstream ==
    \A m \in MeetingIds : Cardinality(OpenUpstreams(m)) <= 1

\* C2: a stream:start by the owner that reaches the accept point while the
\* session id still has a registered upstream connection (an earlier start
\* was accepted and no stop has run) is rejected with a stream:error to its
\* requester and changes neither the buffer nor the upstream connection.
C2_DuplicateStartRejected ==
    [][\A h \in Suspended :
          (StartLookupDone(h) /\ Registered(h.m))
          => /\ ErrorsTo(sent', h.c) # {}
             /\ UNCHANGED <<transcriptBuffers, activeConnections, upstream>>]_vars

\* C3: when a stop of a live session is about to read the buffer, the buffer
\* equals the final fragments the adapter emitted for the session since it
\* went live, in emission order.
C3_BufferEqualsEmittedFinals ==
    \A h \in Suspended :
        (h.op = "stop_await" /\ phase[h.m] = "live")
        => BufferOrEmpty(h.m) = finals[h.m]

\* C4: the transcript handed to persistence by the stop of a live session is
\* the final fragments observed during the session, joined in emission order.
C4_PersistedIsJoinOfFinals ==
    \A x \in sent :
        (x.ev = "setTranscript" /\ phase[x.m] = "live")
        => x.body = JoinSp(finals[x.m])

\* C5: a stream:start handler whose lookup read a row of another user (or
\* no row) ends when it is answered, in a process that has not exited, with
\* a stream:error to that socket and
\* leaves buffers, upstream connections, rooms and the stored transcript as
\* they were; the socket does not become a member of the room, and is not
\* one when the row belongs to another user.
C5_NonOwnerStartRejected ==
    [][\A h \in Suspended :
          (/\ h.op = "start_row" /\ Resumed(h) /\ running'
           /\ ~OwnershipOk(h.full, userId[h.c]))
          => /\ ErrorsTo(sent', h.c) # {}
             /\ sent' = ErrorsTo(sent', h.c)
             /\ inflight' = Resume(h)
             /\ NonOwner(h.c, h.m) => h.c \notin rooms'[h.m]
             /\ UNCHANGED <<transcriptBuffers, activeConnections, upstream,
                            rooms, persisted>>]_vars

C5_Witness ==
    \E x \in sent :
        /\ x.ev = "stream:error" /\ x.m = "m1"
        /\ x.body = "Meeting not found or unauthorized"
        /\ userId[x.to] = "u2"
        /\ Registered("m1") /\ MapHas(transcriptBuffers, "m1")

\* C6: a socket whose token is missing or rejected by the verifier is
\* disconnected at once and none of its events is processed: it never has a
\* handler in flight, is in no room, and nothing but the authentication error
\* is ever emitted on its behalf.
C6_UnauthenticatedNeverProcessed ==
    \A c \in Conns :
        (connected[c] # "none" /\ userId[c] = Undefined)
        => /\ connected[c] = "closed"
           /\ \A h \in Suspended : h.c # c
           /\ \A m \in MeetingIds : c \notin rooms[m]
           /\ \A x \in sent : x.by = c => x.ev = "error"

C6_Witness ==
    \E c \in Conns :
        /\ connected[c] = "closed" /\ userId[c] = Undefined
        /\ Registered("m1")
        /\ \E d \in Conns : d \in rooms["m1"]

\* C7: when a socket that started a session (a member of its room) disconnects
\* while the session is registered, the session is stopped as by an explicit
\* stop.  No timer or other deferred work exists in the handler, so the stop
\* can only be begun by the disconnect listener itself: right after the
\* disconnect the upstream connection is unregistered (stopLiveTranscription
\* is synchronous) or a stop handler is in flight.
C7_OwnerDisconnectStops ==
    [][\A c \in Conns, m \in MeetingIds :
          (Disconnect(c) /\ c \in rooms[m] /\ Registered(m))
          => \/ m \notin DOMAIN activeConnections'
             \/ \E h \in BagToSet(inflight') :
                   h.m = m /\ h.op \in {"stop_await", "stop_save", "stop_saved"}]_vars

\* C8: a stop of a session that a completed stop already closed, with no
\* start accepted in between, does not call persistence.
C8_SecondStopDoesNotPersist ==
    \A x \in sent : x.ev = "setTranscript" => phase[x.m] # "stopped"

\* C9: every fragment the adapter emits is broadcast to the room of its
\* meeting, interim or final; the buffer grows by the fragment's text exactly
\* when the fragment is final, and grows in no other step.
C9_OnlyFinalsBuffered ==
    [][/\ \A i \in DOMAIN upstream, isFinal \in BOOLEAN :
             UpstreamTranscript(i, FALSE, isFinal)
             => LET m == upstream[i].meetingId
                    text == Texts[nEmitted + 1]
                IN /\ \A c \in rooms[m] :
                         \E x \in sent' : /\ x.to = c /\ x.ev = "transcription:update"
                                          /\ x.m = m /\ x.body = text
                                          /\ x.isFinal = isFinal
                   /\ isFinal => transcriptBuffers' =
                           MapSet(transcriptBuffers, m, Append(BufferOrEmpty(m), text))
                   /\ ~isFinal => transcriptBuffers' = transcriptBuffers
       /\ \A m \in MeetingIds :
             (/\ MapHas(transcriptBuffers', m)
              /\ Len(transcriptBuffers'[m]) > Len(BufferOrEmpty(m)))
             => \E i \in DOMAIN upstream : UpstreamTranscript(i, FALSE, TRUE)]_vars

C9_Witness ==
    /\ \E x \in sent : x.ev = "transcription:update" /\ ~x.isFinal
    /\ MapHas(transcriptBuffers, "m1") /\ Len(transcriptBuffers["m1"]) = 1
    /\ nEmitted = 2

\* C10: the transcription:update events of a step go to exactly the sockets
\* that are members of the meeting's room when the adapter emits the
\* fragment, one per member, carrying that fragment; a step that is not an
\* emission (a join in particular) delivers no transcription:update.
C10_UpdatesOnlyToCurrentMembers ==
    [][/\ \A i \in DOMAIN upstream, isFinal \in BOOLEAN :
             UpstreamTranscript(i, FALSE, isFinal)
             => LET m == upstream[i].meetingId
                IN /\ {x.to : x \in sent'} = rooms[m]
                   /\ \A x \in sent' : /\ x.ev = "transcription:update"
                                       /\ x.m = m
                                       /\ x.body = Texts[nEmitted + 1]
                                       /\ x.isFinal = isFinal
                   /\ Cardinality(sent') = Cardinality(rooms[m])
       /\ nEmitted' = nEmitted => Updates(sent') = {}]_vars

C10_Witness ==
    /\ nEmitted = 2
    /\ \E x \in sent : x.ev = "transcription:update" /\ x.to = "c1"
    /\ "c2" \notin {x.to : x \in sent}
    /\ connected["c2"] = "connected" /\ userId["c2"] = "u1"

\* C11: a stream:start answered with the row of its user after a stop of the
\* meeting has completed (and no start was accepted since) is accepted: no
\* stream:error, the buffer is the empty list whatever it held, a connection
\* that did not exist before is created for the meeting and stored, and the
\* handler goes on to join the room.  The session this start opened stays
\* fresh: while the server is serving and the connection it created has
\* neither been finished nor closed, that connection is the one stored for
\* the meeting (so audio for the meeting is forwarded to it), and a final
\* fragment emitted by an earlier connection of the meeting does not change
\* the meeting's buffer.
C11_RestartedSessionIsFresh ==
    [][/\ \A h \in Suspended :
             (/\ StartLookupDone(h) /\ OwnershipOk(h.full, userId[h.c])
              /\ phase[h.m] = "stopped")
             => /\ ErrorsTo(sent', h.c) = {}
                /\ h.m \in DOMAIN transcriptBuffers'
                /\ transcriptBuffers'[h.m] = <<>>
                /\ h.m \in DOMAIN activeConnections'
                /\ activeConnections'[h.m] \notin DOMAIN upstream
                /\ upstream'[activeConnections'[h.m]] =
                      [meetingId |-> h.m, state |-> "connecting"]
                /\ BagIn(Handler(h.c, "start_join", h.m, ""), inflight')
       /\ \A m \in MeetingIds :
             LET own == {i \in DOMAIN upstream' : upstream'[i].meetingId = m}
                 newest == CHOOSE i \in own : \A k \in own : k <= i
             IN (/\ phase'[m] = "live" /\ restarted'[m]
                 /\ running' /\ shutdownStage' = "serving"
                 /\ own # {}
                 /\ upstream'[newest].state \in {"connecting", "open"})
                => /\ m \in DOMAIN activeConnections'
                   /\ activeConnections'[m] = newest
       /\ \A i \in DOMAIN upstream :
             LET m == upstream[i].meetingId
             IN (/\ UpstreamTranscript(i, FALSE, TRUE)
                 /\ phase[m] = "live" /\ restarted[m]
                 /\ \E k \in DOMAIN upstream : k > i /\ upstream[k].meetingId = m)
                => BufferOrEmpty(m)' = BufferOrEmpty(m)]_vars

\* C12: when the open upstream connection stored for a meeting reports an
\* error, that step sends a stream:error for the meeting to every member of
\* its room and begins the teardown: the connection is no longer open.
C12_UpstreamErrorStopsSession ==
    [][\A i \in DOMAIN upstream :
          LET m == upstream[i].meetingId
          IN (/\ UpstreamError(i)
              /\ upstream[i].state = "open"
              /\ Registered(m) /\ activeConnections[m] = i)
             => /\ \A c \in rooms[m] :
                      \E x \in sent' : x.ev = "stream:error" /\ x.to = c /\ x.m = m
                /\ upstream'[i].state # "open"]_vars

\* a live session whose upstream connection was ended by the provider: no
\* stop has completed since the start was accepted, a connection of the
\* meeting was dropped and none is stored
UpstreamLost(m) ==
    /\ phase[m] = "live"
    /\ ~Registered(m)
    /\ \E i \in DOMAIN upstream :
          upstream[i].meetingId = m /\ upstream[i].state = "dropped"

IsPrefix(s, t) == Len(s) <= Len(t) /\ \A k \in 1..Len(s) : s[k] = t[k]

\* C13: once the upstream connection of a live session has been dropped, the
\* final fragments in the buffer stay there, in order, through every later
\* event of a process that is not shutting down (a new start included)
\* unless their join is the meeting's stored transcript after the step.
C13_BufferedFinalsSurviveUpstreamLoss ==
    [][\A m \in MeetingIds :
          (UpstreamLost(m) /\ BufferOrEmpty(m) # <<>> /\ shutdownStage' = "serving")
          => \/ /\ m \in DOMAIN transcriptBuffers'
                /\ IsPrefix(transcriptBuffers[m], transcriptBuffers'[m])
             \/ /\ m \in DOMAIN persisted'
                /\ persisted'[m] = JoinSp(transcriptBuffers[m])]_vars

\* C14: when saveTranscript fails during a stop and no newer connection has
\* been stored for the meeting, the step that handles the failure completes
\* the teardown: the meeting has no buffer entry and no stored connection
\* afterwards, and the requester is out of the room.
C14_TeardownCompletesOnSaveFailure ==
    [][\A h \in Suspended :
          (StopSaveFail(h) /\ ~Registered(h.m))
          => /\ h.m \notin DOMAIN transcriptBuffers'
             /\ h.m \notin DOMAIN activeConnections'
             /\ h.c \notin rooms'[h.m]]_vars

\* C15: a stream:audio whose send() does not throw, for a meeting none of
\* whose upstream connections is being opened or open (never started,
\* stopped, or ended) or that has no stored connection, forwards nothing and
\* leaves buffers, stored connections, connections, rooms and the stored
\* transcript unchanged: its handler is suspended in the rejected await, and
\* the step that resumes a handler suspended there sends exactly one
\* stream:error to the sender, changes none of these either and leaves the
\* socket connected.
C15_AudioWithoutUpstreamRejected ==
    [][/\ \A c \in Conns, m \in MeetingIds :
             (/\ StreamAudio(c, m, FALSE)
              /\ \/ \A i \in DOMAIN upstream :
                       upstream[i].meetingId = m
                       => upstream[i].state \notin {"connecting", "open"}
                 \/ ~Registered(m))
             => /\ sent' = {}
                /\ inflight' = Suspend(Handler(c, "audio_catch", m, ""))
                /\ connected'[c] = "connected"
                /\ UNCHANGED <<transcriptBuffers, activeConnections, upstream,
                               rooms, persisted>>
       /\ \A h \in Suspended :
             (h.op = "audio_catch" /\ Resumed(h))
             => /\ sent' = {Msg(h.c, h.c, "stream:error", h.m,
                                "Failed to process audio")}
                /\ inflight' = Resume(h)
                /\ connected'[h.c] = "connected"
                /\ UNCHANGED <<transcriptBuffers, activeConnections, upstream,
                               rooms, persisted>>]_vars

C15_Witness ==
    \E x \in sent :
        /\ x.ev = "stream:error" /\ x.body = "Failed to process audio"
        /\ x.m = "m1" /\ connected[x.to] = "connected"
        /\ Len(upstream) >= 1 /\ upstream[1].meetingId = "m1"
        /\ \A i \in DOMAIN upstream : upstream[i].state \notin {"connecting", "open"}
        /\ phase["m1"] = "stopped"

\* C16: a stream:stop for a meeting for which no start was ever accepted
\* (no buffer entry, no stored connection) ends with a stream:error to the
\* requester and no stream:stopped, calls neither finish() nor
\* setTranscript, and leaves buffers, connections and rooms as they were.
C16_StopWithoutSessionRejected ==
    [][\A h \in Suspended :
          (/\ StopRead(h)
           /\ phase[h.m] = "idle"
           /\ ~MapHas(transcriptBuffers, h.m) /\ ~Registered(h.m))
          => /\ ErrorsTo(sent', h.c) # {}
             /\ \A x \in sent' : x.ev \notin {"stream:stopped", "setTranscript"}
             /\ UNCHANGED <<transcriptBuffers, activeConnections, upstream,
                            rooms, persisted>>]_vars

\* C17: the step that completes a stop (the one that emits stream:stopped)
\* sends stream:stopped for the meeting, carrying the same transcript, to
\* every socket that was a member of the meeting's room, leaves the room
\* without members and the meeting without a stored connection.
C17_StopNotifiesAndDissolvesRoom ==
    [][\A h \in Suspended :
          (/\ h.op \in {"stop_await", "stop_saved"}
           /\ Resumed(h)
           /\ \E x \in sent' : x.ev = "stream:stopped" /\ x.m = h.m)
          => /\ \A c \in rooms[h.m] :
                   \E y \in sent' : /\ y.ev = "stream:stopped" /\ y.to = c
                                    /\ y.m = h.m
             /\ \A y, z \in sent' : y.body = z.body
             /\ rooms'[h.m] = {}
             /\ h.m \notin DOMAIN activeConnections']_vars

\* C18: on shutdown, for every meeting with a stored connection or a buffer
\* entry: the stored connection whose finish() does not throw is no longer
\* being opened or open and the meeting has no stored connection after the
\* first step of the shutdown; and when the shutdown clears the buffers, a
\* non-empty buffer has been handed to setTranscript as its join by one of
\* the steps of the shutdown.
C18_ShutdownPersistsSessions ==
    [][/\ \A failed \in SUBSET (DOMAIN upstream) :
             ShutdownSignal(failed)
             => \A m \in MeetingIds :
                   Registered(m)
                   => /\ activeConnections[m] \notin failed
                         => upstream'[activeConnections[m]].state
                               \notin {"connecting", "open"}
                      /\ m \notin DOMAIN activeConnections'
       /\ ShutdownBuffers
          => \A m \in MeetingIds :
                BufferOrEmpty(m) # <<>>
                => \E x \in sent \cup sent' :
                      /\ x.ev = "setTranscript" /\ x.m = m
                      /\ x.body = JoinSp(BufferOrEmpty(m))]_vars

\* what the handler and the service hold for one meeting: its buffer entry,
\* its stored connection, the state of each of its connections, its room
SessionState(m) ==
    <<MapHas(transcriptBuffers, m), BufferOrEmpty(m),
      IF Registered(m) THEN {activeConnections[m]} ELSE {},
      {<<i, upstream[i].state>> : i \in {j \in DOMAIN upstream : upstream[j].meetingId = m}},
      rooms[m]>>

\* the step is an event of meeting a: a socket event naming it, the
\* continuation of a handler working on it, or an event of one of its
\* upstream connections
EventFor(a) ==
    \/ \E c \in Conns :
          \/ StreamStart(c, a)
          \/ \E throws \in BOOLEAN : StreamAudio(c, a, throws) \/ StreamStop(c, a, throws)
    \/ \E h \in Suspended :
          /\ h.m = a
          /\ \/ StartLookupRun(h) \/ StartLookupDone(h) \/ StartLookupFail(h)
             \/ StartJoin(h)
             \/ StartOpenThrows(h) \/ StartCatch(h)
             \/ AudioDone(h) \/ AudioCatch(h) \/ StopCatch(h)
             \/ StopRead(h) \/ StopSaveRun(h) \/ StopSaveOk(h) \/ StopSaveFail(h)
    \/ \E i \in DOMAIN upstream :
          /\ upstream[i].meetingId = a
          /\ \/ UpstreamOpen(i) \/ UpstreamError(i) \/ UpstreamClose(i)
             \/ \E empty \in BOOLEAN, isFinal \in BOOLEAN :
                   UpstreamTranscript(i, empty, isFinal)

\* C19: an event of meeting a (start, audio, stop and their continuations,
\* the failures of the upstream calls and of persistence included; fragment,
\* error or close of one of its upstream connections) leaves the buffer
\* entry, the stored connection, the connections and the room of every other
\* meeting b as they were: a step that changes any of these for b is not an
\* event of another meeting.
C19_SessionsIsolated ==
    [][\A a \in MeetingIds, b \in MeetingIds :
          \/ a = b
          \/ SessionState(b)' = SessionState(b)
          \/ ~EventFor(a)]_vars

C19_Witness ==
    /\ \E x \in sent :
          x.ev = "stream:error" /\ x.m = "mx" /\ x.body = "Failed to stop stream"
    /\ ~Registered("mx") /\ BufferOrEmpty("mx") # <<>> /\ rooms["mx"] # {}
    /\ Registered("m1") /\ rooms["m1"] # {}
    /\ upstream[activeConnections["m1"]].state = "open"
    /\ BufferOrEmpty("m1") # <<>>

\* C20: the disconnect of a socket that is a member of a meeting's room
\* leaves the buffers, the stored connections, the upstream connections,
\* the stored transcripts and the suspended handlers as they were and takes
\* only that socket out of the rooms; every fragment emitted afterwards
\* reaches every socket that is then a member of the room.
C20_ListenerDisconnectLeavesSession ==
    [][/\ \A c \in Conns :
             (Disconnect(c) /\ RoomsOf(c) # {})
             => /\ UNCHANGED <<transcriptBuffers, activeConnections, upstream,
                               persisted, inflight>>
                /\ \A m \in MeetingIds : rooms'[m] = rooms[m] \ {c}
       /\ \A i \in DOMAIN upstream, isFinal \in BOOLEAN :
             UpstreamTranscript(i, FALSE, isFinal)
             => \A d \in rooms[upstream[i].meetingId] :
                   \E x \in Updates(sent') : x.to = d /\ x.body = Texts[nEmitted + 1]]_vars

C20_Witness ==
    /\ \E x \in sent : x.ev = "leave-room" /\ x.by = "c2" /\ x.m = "m1"
    /\ connected["c2"] = "closed"
    /\ "c1" \in rooms["m1"] /\ "c2" \notin rooms["m1"]
    /\ Registered("m1") /\ upstream[activeConnections["m1"]].state = "open"
    /\ BufferOrEmpty("m1") # <<>>

\* C21: whenever stream:started is emitted for a meeting, the upstream
\* connection stored for the meeting has reported Open.
C21_StartedOnlyAfterUpstreamOpen ==
    \A x \in sent :
        x.ev = "stream:started"
        => /\ Registered(x.m)
           /\ upstream[activeConnections[x.m]].state = "open"

\* C22: when opening the upstream connection throws during the stream:start
\* of a meeting for which no start was ever accepted, the handler ends with
\* a stream:error to the requester and the meeting has no buffer entry, no
\* stored connection and no room member afterwards.
C22_FailedOpenLeavesNothing ==
    [][\A h \in Suspended :
          (StartCatch(h) /\ phase[h.m] = "idle")
          => /\ ErrorsTo(sent', h.c) # {}
             /\ h.m \notin DOMAIN transcriptBuffers'
             /\ h.m \notin DOMAIN activeConnections'
             /\ rooms'[h.m] = {}]_vars

\* C23: an upstream connection exists only for a meeting for which a start
\* has been accepted, and a fragment that a connection emits after the stop
\* of its meeting has completed (and before any new start is accepted) is
\* neither buffered nor broadcast.
C23_UpstreamNestedInSession ==
    [][/\ \A i \in DOMAIN upstream' : phase'[upstream'[i].meetingId] # "idle"
       /\ \A i \in DOMAIN upstream, isFinal \in BOOLEAN :
             (/\ UpstreamTranscript(i, FALSE, isFinal)
              /\ phase[upstream[i].meetingId] = "stopped")
             => /\ transcriptBuffers' = transcriptBuffers
                /\ Updates(sent') = {}]_vars

\* the transcript is the join of the first k of the fragments, for some k
JoinOfPrefix(full, fragments) ==
    \E k \in 0..Len(fragments) : full = JoinSp(SubSeq(fragments, 1, k))

\* C24: when a stop that read a transcript holding every final fragment
\* emitted for the live session up to then completes its save, the
\* transcript it saved and the one carried by stream:stopped hold every final
\* fragment emitted for the session up to the completion, those that
\* arrived after finish() was called included.
C24_StopDrainsInFlightFragments ==
    [][\A h \in Suspended :
          (/\ StopSaveOk(h)
           /\ phase[h.m] = "live"
           /\ JoinOfPrefix(h.full, finals[h.m]))
          => /\ h.full = JoinSp(finals[h.m])
             /\ \A x \in sent' :
                   x.ev = "stream:stopped" => x.body = JoinSp(finals[h.m])]_vars

\* C25: the Close of an upstream connection on which finish() was called (its
\* session was stopped) while a newer connection is stored for the meeting
\* leaves the stored connection in place.
C25_LateCloseKeepsNewerConnection ==
    [][\A i \in DOMAIN upstream :
          LET m == upstream[i].meetingId
          IN (/\ UpstreamClose(i)
              /\ upstream[i].state \in {"finishing", "closing"}
              /\ Registered(m) /\ activeConnections[m] # i)
             => /\ m \in DOMAIN activeConnections'
                /\ activeConnections'[m] = activeConnections[m]]_vars

\* C26: a final fragment emitted by an upstream connection on which finish()
\* was called (its session was stopped) while a newer connection is stored
\* for the meeting is not appended to the meeting's buffer.
C26_BufferOnlyFromCurrentConnection ==
    [][\A i \in DOMAIN upstream :
          LET m == upstream[i].meetingId
          IN (/\ UpstreamTranscript(i, FALSE, TRUE)
              /\ upstream[i].state = "finishing"
              /\ Registered(m) /\ activeConnections[m] # i)
             => transcriptBuffers' = transcriptBuffers]_vars

\* C27: when a stop handler that was awaiting saveTranscript resumes after a
\* new start for the meeting has been accepted (the meeting has a stored
\* connection and a buffer that is not the one the handler read), the
\* meeting still has its buffer entry and every fragment that was in it is
\* still there, in order.
C27_ResumedStopKeepsNewBuffer ==
    [][\A h \in Suspended :
          (/\ StopSaveOk(h)
           /\ Registered(h.m)
           /\ MapHas(transcriptBuffers, h.m)
           /\ ~JoinOfPrefix(h.full, BufferOrEmpty(h.m)))
          => /\ h.m \in DOMAIN transcriptBuffers'
             /\ IsPrefix(transcriptBuffers[h.m], transcriptBuffers'[h.m])]_vars

\* C28: a stream:audio or stream:stop for a meeting from an authenticated
\* socket whose user is not the owner of the meeting's row forwards no audio,
\* finishes no connection, removes no stored connection, and the stop it
\* begins neither calls setTranscript nor removes the buffer entry.
C28_OnlyOwnerDrivesSession ==
[][/\ \A c \in Conns, m \in MeetingIds, throws \in BOOLEAN :
             ((StreamAudio(c, m, throws) \/ StreamStop(c, m, throws)) /\ NonOwner(c, m))
             => /\ \A x \in sent' : x.ev # "audio"
                /\ UNCHANGED <<upstream, activeConnections>>
       /\ \A h \in Suspended :
             ((StopRead(h) \/ StopSaveRun(h) \/ StopSaveOk(h)) /\ NonOwner(h.c, h.m))
             => /\ \A x \in sent' : x.ev # "setTranscript"
                /\ UNCHANGED <<transcriptBuffers, persisted>>]_vars

\* C29: a socket becomes a member of a meeting's room only in the join step
\* of its own stream:start, and a start gets to its join step only when it
\* is answered with a row of the meeting owned by the socket's user; every
\* transcription:update of a meeting goes to a connected socket that is a
\* member of that meeting's room when the fragment is emitted, and to no
\* other socket.
C29_UpdatesOnlyToJoinedOwners ==
    [][/\ \A c \in Conns, m \in MeetingIds :
             (c \in rooms'[m] /\ c \notin rooms[m])
             => \E h \in Suspended : h.c = c /\ h.m = m /\ StartJoin(h)
       /\ \A c \in Conns, m \in MeetingIds :
             (CopiesIn(Handler(c, "start_join", m, ""), inflight')
                 > CopiesIn(Handler(c, "start_join", m, ""), inflight))
             => \E h \in Suspended :
                   /\ h.c = c /\ h.m = m /\ h.op = "start_row"
                   /\ h.full = userId[c]
                   /\ StartLookupDone(h)
       /\ \A h \in Suspended :
             StartLookupRun(h)
             => BagIn(Handler(h.c, "start_row", h.m,
                              IF h.m \in DOMAIN meetings THEN meetings[h.m] ELSE Null),
                      inflight')
       /\ \A x \in Updates(sent') :
             /\ x.to \in rooms[x.m]
             /\ connected[x.to] = "connected"]_vars

C29_Witness ==
    /\ nEmitted = 1
    /\ \E x \in Updates(sent) : x.to = "c1" /\ x.m = "m1"
    /\ \A x \in Updates(sent) : x.to # "c2"
    /\ connected["c2"] = "connected" /\ userId["c2"] = "u2"
    /\ \E y \in DOMAIN upstream : upstream[y].state = "open"

\* C30: whenever no handler is suspended and the process is not shutting
\* down, a meeting for which a start has been accepted has a buffer entry
\* exactly if it has a stored upstream connection.
C30_MapsAgree ==
    (shutdownStage = "serving" /\ inflight = EmptyBag)
    => \A m \in MeetingIds :
          phase[m] # "idle" => (MapHas(transcriptBuffers, m) <=> Registered(m))

====
